---- MODULE Spec2Model ----
(***************************************************************************)
(* Model of the Vibe Code Assistant backend (src/app.py): the validator,   *)
(* the persistence store behind /api/projects, the plan generator behind   *)
(* /api/generate and /api/download, and the timeline synthesizer.          *)
(*                                                                         *)
(* JSON values are tagged tuples so that values of different Python types  *)
(* can be compared: <<"str", s>>, <<"bool", b>>, <<"null">>, <<"list", q>>,*)
(* <<"dict", q>> (q a sequence of <<key, value>> pairs, in insertion       *)
(* order), <<"obj", r>> for a configuration object whose record r has one  *)
(* entry per field, <<"absent">> marking a key the object does not carry.  *)
(***************************************************************************)
EXTENDS Integers, Sequences, FiniteSets, TLC

VARIABLES
    store,      \* rows of the project table, in insertion order
    now,        \* the reading datetime.utcnow() returns
    request,    \* the request being handled (or last handled)
    response,   \* its response; status 0 while the handler has not answered
    submitted,  \* client side: the body each returned id was created from
    fs,         \* the temporary directories and what is in them
    dl          \* per server thread: the download request it is handling

vars == <<store, now, request, response, submitted, fs, dl>>

(***************************************************************************)
(* Bounds of the model.                                                    *)
(***************************************************************************)
MaxProjects == 2

MaxClock == 1

(***************************************************************************)
(* JSON / Python values.                                                   *)
(***************************************************************************)
Str(s) == <<"str", s>>

Bool(b) == <<"bool", b>>

Null == <<"null">>

Absent == <<"absent">>

List(q) == <<"list", q>>

Dict(q) == <<"dict", q>>

Obj(r) == <<"obj", r>>

\* Python truthiness of a value obtained with dict.get(key): a missing key
\* gives None, and None, '', False, [] and {} are all falsy.
Falsy(v) == v \in {Absent, Null, Str(""), Bool(FALSE), List(<<>>), Dict(<<>>)}

\* data.get(field, default)
Get(r, field, default) == IF r[field] = Absent THEN default ELSE r[field]

\* Variant: the default is taken for a missing key only.
GetOr_missing_only(r, field, default) ==
    IF r[field] = Absent THEN default ELSE r[field]

\* data.get(field) or default
GetOr(r, field, default) == IF Falsy(r[field]) THEN default ELSE r[field]

\* value in [list of str]
InStrs(v, S) == v[1] = "str" /\ v[2] \in S

(***************************************************************************)
(* validate_project_data                                                   *)
(***************************************************************************)
required_fields == <<"project_type", "timeline", "difficulty">>

valid_types == {"fullstack", "frontend", "backend"}

valid_timelines == {"weekend", "1week", "2weeks", "1month", "3months", "open"}

valid_difficulties == {"beginner", "intermediate", "advanced", "expert"}

PyNone == <<"None">>

Returned(ok, msg) == <<"return", ok, msg>>

Raised(exc) == <<"raise", exc>>

\* The indices of required_fields whose value is falsy.
MissingIdx(r) == {i \in 1..Len(required_fields) : Falsy(r[required_fields[i]])}

\* for field in required_fields: the first falsy one
FirstMissingIdx(r) == CHOOSE i \in MissingIdx(r) : \A j \in MissingIdx(r) : i <= j

FirstMissing(r) == required_fields[FirstMissingIdx(r)]

\* Variant: the difficulty is never checked against its enumerated set.
validate_project_data_no_difficulty(data) ==
    IF data[1] # "obj" THEN Raised("AttributeError")
    ELSE LET r == data[2] IN
        IF MissingIdx(r) # {}
            THEN Returned(FALSE, <<"Missing required field: ", FirstMissing(r)>>)
        ELSE IF ~InStrs(r["project_type"], valid_types)
            THEN Returned(FALSE, <<"Invalid project type: ", r["project_type"]>>)
        ELSE IF ~InStrs(r["timeline"], valid_timelines)
            THEN Returned(FALSE, <<"Invalid timeline: ", r["timeline"]>>)
        ELSE Returned(TRUE, PyNone)

\* Variant: only the presence of the required fields is checked.
validate_project_data_presence_only(data) ==
    IF data[1] # "obj" THEN Raised("AttributeError")
    ELSE LET r == data[2] IN
        IF MissingIdx(r) # {}
            THEN Returned(FALSE, <<"Missing required field: ", FirstMissing(r)>>)
        ELSE Returned(TRUE, PyNone)

\* Variant: the timeline is checked against its set before the project type.
validate_project_data_timeline_first(data) ==
    IF data[1] # "obj" THEN Raised("AttributeError")
    ELSE LET r == data[2] IN
        IF MissingIdx(r) # {}
            THEN Returned(FALSE, <<"Missing required field: ", FirstMissing(r)>>)
        ELSE IF ~InStrs(r["timeline"], valid_timelines)
            THEN Returned(FALSE, <<"Invalid timeline: ", r["timeline"]>>)
        ELSE IF ~InStrs(r["project_type"], valid_types)
            THEN Returned(FALSE, <<"Invalid project type: ", r["project_type"]>>)
        ELSE IF ~InStrs(r["difficulty"], valid_difficulties)
            THEN Returned(FALSE, <<"Invalid difficulty: ", r["difficulty"]>>)
        ELSE Returned(TRUE, PyNone)

validate_project_data(data) ==
    IF data[1] # "obj" THEN Raised("AttributeError")
    ELSE LET r == data[2] IN
        IF MissingIdx(r) # {}
            THEN Returned(FALSE, <<"Missing required field: ", FirstMissing(r)>>)
        ELSE IF ~InStrs(r["project_type"], valid_types)
            THEN Returned(FALSE, <<"Invalid project type: ", r["project_type"]>>)
        ELSE IF ~InStrs(r["timeline"], valid_timelines)
            THEN Returned(FALSE, <<"Invalid timeline: ", r["timeline"]>>)
        ELSE IF ~InStrs(r["difficulty"], valid_difficulties)
            THEN Returned(FALSE, <<"Invalid difficulty: ", r["difficulty"]>>)
        ELSE Returned(TRUE, PyNone)

(***************************************************************************)
(* Configurations.                                                         *)
(***************************************************************************)
Fields == {"title", "description", "project_type", "timeline", "difficulty",
           "tech_stack", "features", "deployment_platform", "repo_name",
           "include_readme", "include_license", "include_gitignore",
           "github_username", "include_venv"}

\* The object {} : no key present.
EmptyConfig == [f \in Fields |-> Absent]

With3(pt, tl, df) ==
    [EmptyConfig EXCEPT !["project_type"] = pt, !["timeline"] = tl,
                        !["difficulty"] = df]

\* The values tried for each required field: the legal ones, a missing key,
\* null, the empty string, an illegal string and a value that is no string.
TypeValues ==
    {Str(s) : s \in valid_types} \cup
        {Absent, Null, Str(""), Str("invalid_type"), Bool(TRUE)}

TimelineValues ==
    {Str(s) : s \in valid_timelines} \cup {Absent, Str(""), Str("invalid_timeline")}

DifficultyValues ==
    {Str(s) : s \in valid_difficulties} \cup {Absent, Str(""), Str("invalid_difficulty")}

\* Bodies handed to the validator: every combination of the values above, and
\* two bodies that are not objects (JSON null, a JSON list).
ValidateInputs ==
    {Obj(With3(pt, tl, df)) : pt \in TypeValues, tl \in TimelineValues,
                              df \in DifficultyValues}
        \cup {Null, List(<<>>)}

Pending == [status |-> 0]

\* The server threads that handle download requests concurrently.
MaxWorkers == 2

Workers == 1..MaxWorkers

\* A thread that handles no download request.
IdleHandler ==
    [pc |-> "idle", project |-> EmptyConfig, plan |-> <<>>, temp |-> 0,
     repo_name |-> "", response |-> Pending]

\* No temporary directory exists and no download request is being handled.
NoDownloads ==
    /\ fs = {}
    /\ dl = [w \in Workers |-> IdleHandler]

(***************************************************************************)
(* json.dumps / json.loads.  Serialized text is a sequence of tokens:      *)
(* <<"{">>, <<"}">>, <<"[">>, <<"]">>, <<",">>, <<":">>, <<"string", s>>,  *)
(* <<"true">>, <<"false">>, <<"null">>.                                    *)
(***************************************************************************)
RECURSIVE json_dumps(_), DumpItems(_), DumpMembers(_)

DumpItems(q) ==
    IF q = <<>> THEN <<>>
    ELSE IF Len(q) = 1 THEN json_dumps(q[1])
    ELSE json_dumps(q[1]) \o << <<",">> >> \o DumpItems(Tail(q))

DumpMembers(q) ==
    IF q = <<>> THEN <<>>
    ELSE LET m == << <<"string", q[1][1]>>, <<":">> >> \o json_dumps(q[1][2]) IN
         IF Len(q) = 1 THEN m ELSE m \o << <<",">> >> \o DumpMembers(Tail(q))

json_dumps(v) ==
    CASE v[1] = "str" -> << <<"string", v[2]>> >>
      [] v[1] = "bool" -> IF v[2] THEN << <<"true">> >> ELSE << <<"false">> >>
      [] v[1] = "null" -> << <<"null">> >>
      [] v[1] = "list" -> << <<"[">> >> \o DumpItems(v[2]) \o << <<"]">> >>
      [] v[1] = "dict" -> << <<"{">> >> \o DumpMembers(v[2]) \o << <<"}">> >>

RECURSIVE ParseValue(_), ParseItems(_, _), ParseMembers(_, _)

\* Parses one value at the head of the tokens t; gives the value and the
\* tokens that follow it.
ParseValue(t) ==
    LET h == Head(t) IN
    CASE h[1] = "string" -> [v |-> Str(h[2]), rest |-> Tail(t)]
      [] h[1] = "true" -> [v |-> Bool(TRUE), rest |-> Tail(t)]
      [] h[1] = "false" -> [v |-> Bool(FALSE), rest |-> Tail(t)]
      [] h[1] = "null" -> [v |-> Null, rest |-> Tail(t)]
      [] h[1] = "[" ->
            IF Head(Tail(t))[1] = "]"
                THEN [v |-> List(<<>>), rest |-> Tail(Tail(t))]
                ELSE ParseItems(Tail(t), <<>>)
      [] h[1] = "{" ->
            IF Head(Tail(t))[1] = "}"
                THEN [v |-> Dict(<<>>), rest |-> Tail(Tail(t))]
                ELSE ParseMembers(Tail(t), <<>>)

ParseItems(t, acc) ==
    LET p == ParseValue(t)
        acc2 == Append(acc, p.v)
    IN  IF Head(p.rest)[1] = ","
            THEN ParseItems(Tail(p.rest), acc2)
            ELSE [v |-> List(acc2), rest |-> Tail(p.rest)]

ParseMembers(t, acc) ==
    LET key == Head(t)[2]
        p == ParseValue(Tail(Tail(t)))
        acc2 == Append(acc, <<key, p.v>>)
    IN  IF Head(p.rest)[1] = ","
            THEN ParseMembers(Tail(p.rest), acc2)
            ELSE [v |-> Dict(acc2), rest |-> Tail(p.rest)]

json_loads(t) == ParseValue(t).v

\* A db.Text column holding serialized text.
Text(t) == <<"text", t>>

(***************************************************************************)
(* The Project model: one row per stored configuration.                    *)
(***************************************************************************)
\* Project(...) as create_project builds it from the request body, before
\* the insert assigns id, created_at and updated_at.
Project(r) ==
    [title |-> GetOr(r, "title", Str("Untitled Project")),
     description |-> GetOr(r, "description", Str("")),
     project_type |-> r["project_type"],
     timeline |-> r["timeline"],
     difficulty |-> r["difficulty"],
     tech_stack |-> Text(json_dumps(Get(r, "tech_stack", Dict(<<>>)))),
     features |-> Text(json_dumps(Get(r, "features", List(<<>>)))),
     deployment_platform |-> Get(r, "deployment_platform", Str("github")),
     repo_name |-> Get(r, "repo_name", Str("")),
     include_readme |-> Get(r, "include_readme", Bool(TRUE)),
     include_license |-> Get(r, "include_license", Bool(FALSE)),
     include_gitignore |-> Get(r, "include_gitignore", Bool(TRUE))]

StringColumns == {"title", "description", "project_type", "timeline",
                  "difficulty", "deployment_platform", "repo_name"}

BooleanColumns == {"include_readme", "include_license", "include_gitignore"}

\* Variant: every value binds, whatever its type.
Bindable_unchecked(p) == TRUE

\* Whether the INSERT of the row can bind its parameters: a String/Text
\* column takes a string or NULL, a Boolean column takes True, False or NULL.
\* Any other value makes the flush raise, which create_project catches.
Bindable(p) ==
    /\ \A c \in StringColumns : p[c][1] \in {"str", "null"}
    /\ \A c \in BooleanColumns : p[c][1] \in {"bool", "null"}
    /\ \A c \in {"project_type", "timeline", "difficulty"} : p[c][1] # "null"

\* The row as inserted: the primary key is the next integer, and both
\* timestamp columns default to datetime.utcnow().
Inserted(p, id, t) ==
    [id |-> id, created_at |-> t, updated_at |-> t,
     title |-> p.title, description |-> p.description,
     project_type |-> p.project_type, timeline |-> p.timeline,
     difficulty |-> p.difficulty, tech_stack |-> p.tech_stack,
     features |-> p.features, deployment_platform |-> p.deployment_platform,
     repo_name |-> p.repo_name, include_readme |-> p.include_readme,
     include_license |-> p.include_license,
     include_gitignore |-> p.include_gitignore]

\* datetime.isoformat()
isoformat(t) == <<"isoformat", t>>

\* Variant: tech_stack and features are returned as stored, undecoded.
to_dict_undecoded(row) ==
    [id |-> row.id,
     title |-> row.title,
     description |-> row.description,
     project_type |-> row.project_type,
     timeline |-> row.timeline,
     difficulty |-> row.difficulty,
     tech_stack |-> row.tech_stack,
     features |-> row.features,
     deployment_platform |-> row.deployment_platform,
     repo_name |-> row.repo_name,
     include_readme |-> row.include_readme,
     include_license |-> row.include_license,
     include_gitignore |-> row.include_gitignore,
     created_at |-> isoformat(row.created_at),
     updated_at |-> isoformat(row.updated_at)]

\* Project.to_dict
to_dict(row) ==
    [id |-> row.id,
     title |-> row.title,
     description |-> row.description,
     project_type |-> row.project_type,
     timeline |-> row.timeline,
     difficulty |-> row.difficulty,
     tech_stack |-> IF row.tech_stack[2] # <<>>
                        THEN json_loads(row.tech_stack[2]) ELSE Dict(<<>>),
     features |-> IF row.features[2] # <<>>
                        THEN json_loads(row.features[2]) ELSE List(<<>>),
     deployment_platform |-> row.deployment_platform,
     repo_name |-> row.repo_name,
     include_readme |-> row.include_readme,
     include_license |-> row.include_license,
     include_gitignore |-> row.include_gitignore,
     created_at |-> isoformat(row.created_at),
     updated_at |-> isoformat(row.updated_at)]



(***************************************************************************)
(* Specification of the validator alone: a body is drawn, then validated.  *)
(***************************************************************************)
InitValidate ==
    /\ store = <<>>
    /\ now = 0
    /\ request \in {[op |-> "validate", data |-> d] : d \in ValidateInputs}
    /\ response = Pending
    /\ submitted = <<>>
    /\ NoDownloads

Validate ==
    /\ request.op = "validate"
    /\ response.status = 0
    /\ response' = [status |-> 1, result |-> validate_project_data(request.data)]
    /\ UNCHANGED <<store, now, request, submitted, fs, dl>>

NextValidate == Validate

SpecValidate == InitValidate /\ [][NextValidate]_vars


(***************************************************************************)
(* The timeline synthesizer.                                               *)
(***************************************************************************)
\* The timeline -> day-count chain of generate_project_plan; a value that is
\* none of the six names leaves the initial 7.
TimelineDays(timeline) ==
    IF timeline = Str("weekend") THEN 3
    ELSE IF timeline = Str("1week") THEN 7
    ELSE IF timeline = Str("2weeks") THEN 14
    ELSE IF timeline = Str("1month") THEN 30
    ELSE IF timeline = Str("3months") THEN 90
    ELSE IF timeline = Str("open") THEN 0
    ELSE 7

Phase(name, percentage, tasks) ==
    [name |-> name, percentage |-> percentage, tasks |-> tasks]

\* Variant: the third percentage of the <= 14 days template reads 25.
PhaseTemplate_typo(days) ==
    IF days <= 3 THEN
        <<Phase("Planning & Setup", 20,
                <<"Project setup", "Environment configuration", "Basic structure">>),
          Phase("Core Development", 60,
                <<"Implement main features", "Basic functionality">>),
          Phase("Testing & Polish", 20,
                <<"Bug fixes", "Basic testing", "Documentation">>)>>
    ELSE IF days <= 7 THEN
        <<Phase("Planning & Setup", 15,
                <<"Project setup", "Environment configuration", "Architecture planning">>),
          Phase("Core Development", 50,
                <<"Database models", "API routes", "Basic UI">>),
          Phase("Features & Integration", 25,
                <<"Implement features", "Third-party integrations">>),
          Phase("Testing & Polish", 10,
                <<"Testing", "Bug fixes", "Documentation">>)>>
    ELSE IF days <= 14 THEN
        <<Phase("Planning & Setup", 10,
                <<"Project setup", "Environment configuration", "Architecture planning">>),
          Phase("Core Development", 40,
                <<"Database models", "API routes", "Basic UI">>),
          Phase("Features & Integration", 25,
                <<"Implement features", "Third-party integrations",
                  "Advanced functionality">>),
          Phase("Testing & Polish", 15,
                <<"Comprehensive testing", "Bug fixes", "Performance optimization",
                  "Documentation">>)>>
    ELSE
        <<Phase("Planning & Setup", 10,
                <<"Project setup", "Environment configuration", "Architecture planning",
                  "Team setup">>),
          Phase("Core Development", 35,
                <<"Database models", "API routes", "Basic UI", "Core features">>),
          Phase("Features & Integration", 35,
                <<"Implement features", "Third-party integrations",
                  "Advanced functionality", "AI/ML integration">>),
          Phase("Testing & Polish", 20,
                <<"Comprehensive testing", "Performance optimization", "Security audit",
                  "Documentation", "Deployment">>)>>

\* The phase template generate_timeline_phases selects for a day-count.
PhaseTemplate(days) ==
    IF days <= 3 THEN
        <<Phase("Planning & Setup", 20,
                <<"Project setup", "Environment configuration", "Basic structure">>),
          Phase("Core Development", 60,
                <<"Implement main features", "Basic functionality">>),
          Phase("Testing & Polish", 20,
                <<"Bug fixes", "Basic testing", "Documentation">>)>>
    ELSE IF days <= 7 THEN
        <<Phase("Planning & Setup", 15,
                <<"Project setup", "Environment configuration", "Architecture planning">>),
          Phase("Core Development", 50,
                <<"Database models", "API routes", "Basic UI">>),
          Phase("Features & Integration", 25,
                <<"Implement features", "Third-party integrations">>),
          Phase("Testing & Polish", 10,
                <<"Testing", "Bug fixes", "Documentation">>)>>
    ELSE IF days <= 14 THEN
        <<Phase("Planning & Setup", 10,
                <<"Project setup", "Environment configuration", "Architecture planning">>),
          Phase("Core Development", 40,
                <<"Database models", "API routes", "Basic UI">>),
          Phase("Features & Integration", 35,
                <<"Implement features", "Third-party integrations",
                  "Advanced functionality">>),
          Phase("Testing & Polish", 15,
                <<"Comprehensive testing", "Bug fixes", "Performance optimization",
                  "Documentation">>)>>
    ELSE
        <<Phase("Planning & Setup", 10,
                <<"Project setup", "Environment configuration", "Architecture planning",
                  "Team setup">>),
          Phase("Core Development", 35,
                <<"Database models", "API routes", "Basic UI", "Core features">>),
          Phase("Features & Integration", 35,
                <<"Implement features", "Third-party integrations",
                  "Advanced functionality", "AI/ML integration">>),
          Phase("Testing & Polish", 20,
                <<"Comprehensive testing", "Performance optimization", "Security audit",
                  "Documentation", "Deployment">>)>>

\* Python's round() of the non-negative quotient n / d: to the nearest
\* integer, an exact half going to the even neighbour.
PyRound(n, d) ==
    LET q == n \div d
        r == n % d
    IN  IF 2 * r < d THEN q
        ELSE IF 2 * r > d THEN q + 1
        ELSE IF q % 2 = 0 THEN q ELSE q + 1

Max(a, b) == IF a >= b THEN a ELSE b

\* Variant: the quotient is truncated instead of rounded.
PhaseDays_truncated(days, percentage) == Max(1, (days * percentage) \div 100)

\* phase_days = max(1, round(days * percentage / 100))
PhaseDays(days, percentage) == Max(1, PyRound(days * percentage, 100))

RECURSIVE LayOut(_, _, _)

\* The loop of generate_timeline_phases: each phase rendered with its
\* heading's day range and its checklist, current_day carried along.
LayOut(phases, days, current_day) ==
    IF phases = <<>> THEN <<>>
    ELSE LET ph == Head(phases)
             end_day == current_day + PhaseDays(days, ph.percentage) - 1
         IN  << [name |-> ph.name, percentage |-> ph.percentage,
                 start_day |-> current_day, end_day |-> end_day,
                 tasks |-> ph.tasks] >>
             \o LayOut(Tail(phases), days, end_day + 1)

generate_timeline_phases(days, project_type, difficulty) ==
    LayOut(PhaseTemplate(days), days, 1)

(***************************************************************************)
(* The plan assembler and its renderers.                                   *)
(***************************************************************************)
Truthy(v) == ~Falsy(v)

\* dict.get(key, default) on a JSON object value
DictGet(d, key, default) ==
    IF \E i \in 1..Len(d[2]) : d[2][i][1] = key
        THEN d[2][CHOOSE i \in 1..Len(d[2]) : d[2][i][1] = key][2]
        ELSE default

\* name in tech_list
ListHas(l, name) == \E i \in 1..Len(l[2]) : l[2][i] = Str(name)

\* s.replace('_', ' ').title(), for the strings of the model
ReplaceTitle(s) ==
    CASE s = "" -> ""
      [] s = "fullstack" -> "Fullstack"
      [] s = "frontend" -> "Frontend"
      [] s = "backend" -> "Backend"
      [] s = "invalid_type" -> "Invalid Type"
      [] s = "weekend" -> "Weekend"
      [] s = "1week" -> "1Week"
      [] s = "2weeks" -> "2Weeks"
      [] s = "1month" -> "1Month"
      [] s = "3months" -> "3Months"
      [] s = "open" -> "Open"
      [] s = "invalid_timeline" -> "Invalid Timeline"
      [] s = "github" -> "Github"

\* s.title(), for the strings of the model
Title(s) ==
    CASE s = "" -> ""
      [] s = "beginner" -> "Beginner"
      [] s = "intermediate" -> "Intermediate"
      [] s = "advanced" -> "Advanced"
      [] s = "expert" -> "Expert"
      [] s = "invalid_difficulty" -> "Invalid_Difficulty"

\* format_tech_list
format_tech_list(tech_list) ==
    IF Falsy(tech_list) THEN <<"- *No specific technologies selected*">>
    ELSE [i \in 1..Len(tech_list[2]) |-> <<"- ", tech_list[2][i]>>]

\* format_features_list; "- [x] " stands for the check-mark bullet prefix
format_features_list(features) ==
    IF Falsy(features) THEN <<"- *No specific features selected*">>
    ELSE [i \in 1..Len(features[2]) |-> <<"- [x] ", features[2][i]>>]

YesNo(v) == IF Truthy(v) THEN "Yes" ELSE "No"

\* generate_file_structure: the diagram of the project type, the fullstack
\* one for any other value.
generate_file_structure(project_type, repo_name) ==
    IF InStrs(project_type, valid_types)
        THEN <<"structure", project_type[2], repo_name>>
        ELSE <<"structure", "fullstack", repo_name>>

\* generate_getting_started: the numbered steps emitted.
generate_getting_started(tech_stack, project_type, github_username, repo_name) ==
    LET frontend == DictGet(tech_stack, "frontend", List(<<>>))
        backend == DictGet(tech_stack, "backend", List(<<>>))
    IN  << <<"1. Clone the repository", github_username, repo_name>> >>
        \o (IF InStrs(project_type, {"fullstack", "frontend"}) /\ Truthy(frontend)
                THEN << <<"2. Set up frontend",
                          IF ListHas(frontend, "React") THEN "npm start"
                          ELSE IF ListHas(frontend, "Vue.js") THEN "npm run dev"
                          ELSE "generic">> >>
                ELSE <<>>)
        \o (IF InStrs(project_type, {"fullstack", "backend"}) /\ Truthy(backend)
                THEN << <<"3. Set up backend",
                          IF ListHas(backend, "Python") \/ ListHas(backend, "Flask")
                              THEN "python app.py"
                          ELSE IF ListHas(backend, "Node.js") THEN "npm start"
                          ELSE "generic">> >>
                ELSE <<>>)
        \o << <<"4. Set up environment variables">>,
              <<"5. Start development servers">>,
              <<"6. Open your browser to the frontend URL">> >>

\* Whether generate_project_plan runs to its return: the values it calls
\* str methods on are strings, tech_stack is a dict whose categories are
\* lists, and features is a list.  Otherwise it raises.
PlanComputable(r) ==
    /\ Get(r, "project_type", Str("fullstack"))[1] = "str"
    /\ Get(r, "timeline", Str("1week"))[1] = "str"
    /\ Get(r, "difficulty", Str("intermediate"))[1] = "str"
    /\ Get(r, "deployment_platform", Str("github"))[1] = "str"
    /\ Get(r, "tech_stack", Dict(<<>>))[1] = "dict"
    /\ Get(r, "features", List(<<>>))[1] = "list"

\* generate_project_plan: the markdown document as its sections, in the
\* order of the template; t is the reading of datetime.now().
generate_project_plan(r, t) ==
    LET title == GetOr(r, "title", Str("Untitled Project"))
        description == GetOr(r, "description", Str("No description provided"))
        project_type == Get(r, "project_type", Str("fullstack"))
        timeline == Get(r, "timeline", Str("1week"))
        difficulty == Get(r, "difficulty", Str("intermediate"))
        timeline_days == TimelineDays(timeline)
        tech_stack == Get(r, "tech_stack", Dict(<<>>))
        features == Get(r, "features", List(<<>>))
        deployment_platform == Get(r, "deployment_platform", Str("github"))
        repo_name == Get(r, "repo_name", Str("my-project"))
        github_username == Get(r, "github_username", Str("yourusername"))
        phases == generate_timeline_phases(timeline_days, project_type, difficulty)
        file_structure == generate_file_structure(project_type, repo_name)
        getting_started ==
            generate_getting_started(tech_stack, project_type, github_username, repo_name)
    IN  << <<"# ", title>>,
           <<"## Project Overview", description>>,
           <<"## Project Details",
             [type |-> ReplaceTitle(project_type[2]),
              timeline |-> ReplaceTitle(timeline[2]),
              days |-> timeline_days,
              difficulty |-> Title(difficulty[2]),
              created |-> <<"%Y-%m-%d %H:%M", t>>]>>,
           <<"## Tech Stack",
             [frontend |-> format_tech_list(DictGet(tech_stack, "frontend", List(<<>>))),
              backend |-> format_tech_list(DictGet(tech_stack, "backend", List(<<>>))),
              database |-> format_tech_list(DictGet(tech_stack, "database", List(<<>>))),
              tools |-> format_tech_list(DictGet(tech_stack, "tools", List(<<>>)))]>>,
           <<"## Features", format_features_list(features)>>,
           <<"## Deployment",
             [platform |-> ReplaceTitle(deployment_platform[2]),
              repository |-> <<"https://github.com/", github_username, "/", repo_name>>,
              include_readme |-> YesNo(Get(r, "include_readme", Bool(TRUE))),
              include_license |-> YesNo(Get(r, "include_license", Bool(FALSE))),
              include_gitignore |-> YesNo(Get(r, "include_gitignore", Bool(TRUE))),
              include_venv |-> YesNo(Get(r, "include_venv", Bool(TRUE)))]>>,
           <<"*Generated by Vibe Code Assistant on", <<"%Y-%m-%d", t>> >> >>

\* data.get('project', {}) of the generate and download handlers: the body's
\* project value, {} when the key is missing.
ProjectData(data) == IF data = Absent THEN Obj(EmptyConfig) ELSE data

(***************************************************************************)
(* The file materializer and the archiver.                                 *)
(***************************************************************************)
\* The repository names of the model, as their characters.
NameChars(s) ==
    CASE s = "" -> <<>>
      [] s = "!!!" -> <<"!", "!", "!">>
      [] s = "My App" -> <<"M", "y", " ", "A", "p", "p">>
      [] s = "my-app" -> <<"m", "y", "-", "a", "p", "p">>
      [] s = "my-project" -> <<"m", "y", "-", "p", "r", "o", "j", "e", "c", "t">>
      [] s = "test-project" ->
            <<"t", "e", "s", "t", "-", "p", "r", "o", "j", "e", "c", "t">>
      [] s = "My_App 2" -> <<"M", "y", "_", "A", "p", "p", " ", "2">>
      [] s = "my_app-2" -> <<"m", "y", "_", "a", "p", "p", "-", "2">>
      [] s = "Caf<U+00E9>" -> <<"C", "a", "f", "<U+00E9>">>
      [] s = "caf<U+00E9>" -> <<"c", "a", "f", "<U+00E9>">>

\* "<U+00E9>" stands for the one character LATIN SMALL LETTER E WITH ACUTE.
Names ==
    {"", "!!!", "My App", "my-app", "my-project", "test-project",
     "My_App 2", "my_app-2", "Caf<U+00E9>", "caf<U+00E9>"}

NameOf(chars) == CHOOSE s \in Names : NameChars(s) = chars

\* str.lower() of one character
LowerChar(c) ==
    CASE c = "M" -> "m"
      [] c = "A" -> "a"
      [] c = "C" -> "c"
      [] OTHER -> c

\* The characters the pattern [^\w\-_] leaves in place.  The pattern is a
\* str pattern, so \w matches every Unicode word character, the letters
\* outside ASCII included.
WordChars ==
    {"a", "b", "c", "d", "e", "f", "g", "h", "i", "j", "k", "l", "m", "n", "o",
     "p", "q", "r", "s", "t", "u", "v", "w", "x", "y", "z",
     "A", "B", "C", "D", "E", "F", "G", "H", "I", "J", "K", "L", "M", "N", "O",
     "P", "Q", "R", "S", "T", "U", "V", "W", "X", "Y", "Z",
     "0", "1", "2", "3", "4", "5", "6", "7", "8", "9", "_", "-",
     "<U+00E9>"}

\* re.sub(r'[^\w\-_]', '', name.lower().replace(' ', '-'))
SanitizeChars(chars) ==
    LET lowered == [i \in 1..Len(chars) |-> LowerChar(chars[i])]
        hyphened == [i \in 1..Len(chars) |->
                        IF lowered[i] = " " THEN "-" ELSE lowered[i]]
    IN  SelectSeq(hyphened, LAMBDA c : c \in WordChars)

Sanitize(name) == NameOf(SanitizeChars(NameChars(name)))

File(path, content) == <<path, content>>

InAny(tech, names) == \E n \in names : ListHas(tech, n)

\* generate_frontend_files, the files written under the directory dir
generate_frontend_files(r, dir) ==
    LET frontend_tech ==
            DictGet(Get(r, "tech_stack", Dict(<<>>)), "frontend", List(<<>>))
    IN  (IF InAny(frontend_tech, {"React", "Vue.js", "Angular"})
            THEN {File(dir \o <<"package.json">>,
                       <<"package.json",
                         IF ListHas(frontend_tech, "React") THEN "react" ELSE "bare">>)}
            ELSE {})
        \cup {File(dir \o <<"index.html">>, <<"index.html">>)}

\* generate_backend_files, the files written under the directory dir
generate_backend_files(r, dir) ==
    LET backend_tech ==
            DictGet(Get(r, "tech_stack", Dict(<<>>)), "backend", List(<<>>))
    IN  (IF InAny(backend_tech, {"Python", "Flask", "Django", "FastAPI"})
            THEN {File(dir \o <<"requirements.txt">>, <<"requirements.txt">>)}
            ELSE {})
        \cup
        (IF InAny(backend_tech, {"Node.js", "Express"})
            THEN {File(dir \o <<"package.json">>, <<"package.json", "express">>)}
            ELSE {})

\* Variant: the three flags are not consulted.
generate_common_files_unconditional(r, plan) ==
    {File(<<"README.md">>, <<"plan", plan>>),
     File(<<".gitignore">>, <<".gitignore">>),
     File(<<"LICENSE">>, <<"MIT License">>),
     File(<<".env.example">>, <<".env.example">>)}

\* generate_common_files
generate_common_files(r, plan) ==
    (IF Truthy(Get(r, "include_readme", Bool(TRUE)))
        THEN {File(<<"README.md">>, <<"plan", plan>>)} ELSE {})
    \cup (IF Truthy(Get(r, "include_gitignore", Bool(TRUE)))
        THEN {File(<<".gitignore">>, <<".gitignore">>)} ELSE {})
    \cup (IF Truthy(Get(r, "include_license", Bool(FALSE)))
        THEN {File(<<"LICENSE">>, <<"MIT License">>)} ELSE {})
    \cup {File(<<".env.example">>, <<".env.example">>)}

\* generate_project_files: the files written, as paths relative to the
\* project directory.
generate_project_files(r, plan) ==
    (IF r["project_type"] = Str("fullstack")
        THEN generate_frontend_files(r, <<"frontend">>)
                \cup generate_backend_files(r, <<"backend">>)
     ELSE IF r["project_type"] = Str("frontend")
        THEN generate_frontend_files(r, <<>>)
     ELSE IF r["project_type"] = Str("backend")
        THEN generate_backend_files(r, <<>>)
     ELSE {})
    \cup generate_common_files(r, plan)

\* The entries the os.walk loop of download_project writes to the archive.
\* The archive is opened at temp_path/<repo_name>.zip before the walk of
\* temp_path/<repo_name>: when the name is empty the project directory is
\* temp_path itself and the walk meets the archive file.
ArchiveEntries(repo_name, files) ==
    IF repo_name = ""
        THEN files \cup {File(<<".zip">>, <<"the archive being written">>)}
        ELSE files

(***************************************************************************)
(* The HTTP surface.  A request is received, the clock may move, and the   *)
(* handler of its route answers it.                                        *)
(***************************************************************************)
\* conftest-style sample body of test_app.py
SampleConfig ==
    [EmptyConfig EXCEPT
        !["title"] = Str("Test Project"),
        !["description"] = Str("A test project for unit testing"),
        !["project_type"] = Str("fullstack"),
        !["timeline"] = Str("1week"),
        !["difficulty"] = Str("intermediate"),
        !["tech_stack"] = Dict(<< <<"frontend", List(<<Str("React")>>)>>,
                                   <<"backend", List(<<Str("Python")>>)>>,
                                   <<"database", List(<<Str("SQLite")>>)>>,
                                   <<"tools", List(<<Str("Git")>>)>> >>),
        !["features"] = List(<<Str("Authentication"), Str("CRUD Operations")>>),
        !["deployment_platform"] = Str("github"),
        !["repo_name"] = Str("test-project"),
        !["include_readme"] = Bool(TRUE),
        !["include_license"] = Bool(FALSE),
        !["include_gitignore"] = Bool(TRUE)]

MinimalConfig == With3(Str("fullstack"), Str("1week"), Str("intermediate"))

\* Legal required fields, every optional field present but empty.
EmptyFieldsConfig ==
    [With3(Str("backend"), Str("2weeks"), Str("advanced")) EXCEPT
        !["title"] = Str(""),
        !["description"] = Str(""),
        !["tech_stack"] = Dict(<<>>),
        !["features"] = List(<<>>),
        !["deployment_platform"] = Null,
        !["include_readme"] = Bool(FALSE)]

OpenConfig ==
    [With3(Str("frontend"), Str("open"), Str("expert")) EXCEPT
        !["title"] = Str("Test Project"),
        !["tech_stack"] = Dict(<< <<"frontend", List(<<>>)>> >>),
        !["features"] = List(<<Str("Authentication")>>),
        !["include_license"] = Bool(TRUE)]

\* Legal required fields, but a flag that is no boolean.
IllTypedConfig == [MinimalConfig EXCEPT !["include_readme"] = Str("yes")]

ValidBodies ==
    {Obj(SampleConfig), Obj(MinimalConfig), Obj(EmptyFieldsConfig),
     Obj(OpenConfig), Obj(IllTypedConfig)}

InvalidBodies ==
    {Obj(EmptyConfig),
     Obj([EmptyConfig EXCEPT !["title"] = Str("Test Project")]),
     Obj(With3(Str("fullstack"), Str("1week"), Absent)),
     Obj(With3(Str("invalid_type"), Str("1week"), Str("intermediate"))),
     Obj(With3(Str("fullstack"), Str("invalid_timeline"), Str("intermediate"))),
     Obj(With3(Str("fullstack"), Str("1week"), Str("invalid_difficulty"))),
     Obj(With3(Str("invalid_type"), Str(""), Absent)),
     Null}

CreateInputs == ValidBodies \cup InvalidBodies

\* Legal required fields and a repository name, no README wanted.
NamedConfig(name) ==
    [With3(Str("backend"), Str("weekend"), Str("beginner")) EXCEPT
        !["repo_name"] = Str(name),
        !["tech_stack"] = Dict(<< <<"backend", List(<<Str("Flask")>>)>> >>),
        !["include_readme"] = Bool(FALSE)]

\* The project values of generate and download bodies: the bodies above, a
\* body without the project key, values no string method applies to, and
\* repository names that need sanitizing.
ProjectInputs ==
    CreateInputs
        \cup {Absent,
              Obj(With3(Bool(TRUE), Str("1week"), Str("intermediate"))),
              Obj(With3(Str(""), Str("1week"), Str("intermediate"))),
              Obj([MinimalConfig EXCEPT !["repo_name"] = Null])}
        \cup {Obj(NamedConfig(n)) : n \in {"", "!!!", "My App"}}

\* <int:project_id> path segments, and one segment the converter rejects.
IdInputs == {<<"int", i>> : i \in 0..(MaxProjects + 1)} \cup {<<"path", "abc">>}

Error(msg) == [error |-> msg]

\* Variant: the lookup is off by one.
RowsWithId_off_by_one(id) == {i \in 1..Len(store) : store[i].id = id + 1}

\* Project.query.get(id): the rows with that primary key.
RowsWithId(id) == {i \in 1..Len(store) : store[i].id = id}

\* The orders in which ORDER BY created_at DESC may return the rows: rows
\* with equal created_at come in an order the query does not determine.
CreatedDescOrders ==
    {q \in [1..Len(store) -> 1..Len(store)] :
        /\ \A i, j \in 1..Len(store) : i # j => q[i] # q[j]
        /\ \A i, j \in 1..Len(store) :
              i < j => store[q[i]].created_at >= store[q[j]].created_at}

Init ==
    /\ store = <<>>
    /\ now = 0
    /\ request = [op |-> "index", data |-> Absent]
    /\ response = [status |-> 200, body |-> <<"index.html">>]
    /\ submitted = <<>>
    /\ NoDownloads

\* A request arrives once the previous one is answered.  Creates are
\* accepted while the table has room (the bound of the model).
Receive ==
    /\ response.status # 0
    /\ \/ \E d \in CreateInputs :
            /\ Len(store) < MaxProjects
            /\ request' = [op |-> "create", data |-> d]
       \/ \E d \in IdInputs : request' = [op |-> "get", data |-> d]
       \/ \E d \in ProjectInputs, o \in {"generate", "download"} :
            request' = [op |-> o, data |-> d]
       \/ \E o \in {"list", "tech_stacks", "features", "index"} :
            request' = [op |-> o, data |-> Absent]
    /\ response' = Pending
    /\ UNCHANGED <<store, now, submitted, fs, dl>>

\* The wall clock advances.
Tick ==
    /\ now < MaxClock
    /\ now' = now + 1
    /\ UNCHANGED <<store, request, response, submitted, fs, dl>>

\* Variant: the commit also stamps updated_at on every row of the table.
Commit_touch_all(st, p, t) ==
    Append([i \in 1..Len(st) |-> [st[i] EXCEPT !.updated_at = t]],
           Inserted(p, Len(st) + 1, t))

\* db.session.add(project); db.session.commit(): the row is appended to the
\* table under the next primary key, stamped with the clock reading t.
Commit(st, p, t) == Append(st, Inserted(p, Len(st) + 1, t))

\* POST /api/projects
create_project ==
    /\ request.op = "create"
    /\ response.status = 0
    /\ LET v == validate_project_data(request.data) IN
       IF v[1] = "raise" THEN
            /\ response' = [status |-> 500,
                            body |-> Error(<<"Failed to create project: ", v[2]>>)]
            /\ UNCHANGED <<store, submitted>>
       ELSE IF ~v[2] THEN
            /\ response' = [status |-> 400, body |-> Error(v[3])]
            /\ UNCHANGED <<store, submitted>>
       ELSE LET p == Project(request.data[2]) IN
            IF ~Bindable(p) THEN
                /\ response' = [status |-> 500,
                                body |-> Error(<<"Failed to create project: ",
                                                 "StatementError">>)]
                /\ UNCHANGED <<store, submitted>>
            ELSE
                /\ store' = Commit(store, p, now)
                /\ response' = [status |-> 200,
                                body |-> [success |-> TRUE,
                                          project |-> to_dict(store'[Len(store')]),
                                          message |-> "Project created successfully"]]
                /\ submitted' = Append(submitted, request.data[2])
    /\ UNCHANGED <<now, request, fs, dl>>

\* GET /api/projects/<int:project_id>; a segment that is no integer matches
\* no route and is answered by not_found_error.
get_project ==
    /\ request.op = "get"
    /\ response.status = 0
    /\ IF request.data[1] # "int"
            THEN response' = [status |-> 404, body |-> Error("Resource not found")]
       ELSE IF RowsWithId(request.data[2]) = {}
            THEN response' = [status |-> 404, body |-> Error("Project not found")]
       ELSE LET i == CHOOSE i \in RowsWithId(request.data[2]) : TRUE IN
            response' = [status |-> 200, body |-> to_dict(store[i])]
    /\ UNCHANGED <<store, now, request, submitted, fs, dl>>

\* GET /api/projects
get_projects ==
    /\ request.op = "list"
    /\ response.status = 0
    /\ \E q \in CreatedDescOrders :
            response' = [status |-> 200,
                         body |-> [i \in 1..Len(store) |-> to_dict(store[q[i]])]]
    /\ UNCHANGED <<store, now, request, submitted, fs, dl>>

\* POST /api/generate
generate_project ==
    /\ request.op = "generate"
    /\ response.status = 0
    /\ LET project_data == ProjectData(request.data) IN
       IF project_data[1] # "obj" \/ ~PlanComputable(project_data[2])
            THEN response' = [status |-> 500,
                              body |-> Error(<<"Failed to generate project plan: ",
                                               "AttributeError">>)]
            ELSE response' = [status |-> 200,
                              body |-> [success |-> TRUE,
                                        plan |-> generate_project_plan(project_data[2], now)]]
    /\ UNCHANGED <<store, now, request, submitted, fs, dl>>

\* POST /api/download
download_project ==
    /\ request.op = "download"
    /\ response.status = 0
    /\ LET project_data == ProjectData(request.data) IN
       IF \/ project_data[1] # "obj"
          \/ ~PlanComputable(project_data[2])
          \/ Get(project_data[2], "repo_name", Str("my-project"))[1] # "str"
            THEN response' = [status |-> 500,
                              body |-> Error(<<"Failed to generate project files: ",
                                               "AttributeError">>)]
            ELSE LET r == project_data[2]
                     plan == generate_project_plan(r, now)
                     repo_name == Sanitize(Get(r, "repo_name", Str("my-project"))[2])
                     files == generate_project_files(r, plan)
                 IN  response' = [status |-> 200,
                                  body |-> [archive |-> ArchiveEntries(repo_name, files),
                                            download_name |-> <<repo_name, ".zip">>,
                                            mimetype |-> "application/zip"]]
    /\ UNCHANGED <<store, now, request, submitted, fs, dl>>

\* GET /api/tech-stacks
get_tech_stacks ==
    /\ request.op = "tech_stacks"
    /\ response.status = 0
    /\ response' = [status |-> 200, body |-> <<"DEFAULT_TECH_STACKS">>]
    /\ UNCHANGED <<store, now, request, submitted, fs, dl>>

\* GET /api/features
get_features ==
    /\ request.op = "features"
    /\ response.status = 0
    /\ response' = [status |-> 200, body |-> <<"DEFAULT_FEATURES">>]
    /\ UNCHANGED <<store, now, request, submitted, fs, dl>>

\* GET /
index ==
    /\ request.op = "index"
    /\ response.status = 0
    /\ response' = [status |-> 200, body |-> <<"index.html">>]
    /\ UNCHANGED <<store, now, request, submitted, fs, dl>>

Next ==
    \/ Receive
    \/ Tick
    \/ create_project
    \/ get_project
    \/ get_projects
    \/ generate_project
    \/ download_project
    \/ get_tech_stacks
    \/ get_features
    \/ index

Spec == Init /\ [][Next]_vars

(***************************************************************************)
(* Specification of the timeline synthesizer alone: a configuration or a   *)
(* bare day-count is drawn, then the phases are synthesized from it.       *)
(***************************************************************************)
MaxDays == 100

InitTimeline ==
    /\ store = <<>>
    /\ now = 0
    /\ request \in
          {[op |-> "plan_timeline", data |-> Obj(With3(Str(pt), Str(tl), Str(df)))] :
              pt \in valid_types, tl \in valid_timelines, df \in valid_difficulties}
          \cup {[op |-> "phases", data |-> <<"int", d>>] : d \in 0..MaxDays}
    /\ response = Pending
    /\ submitted = <<>>
    /\ NoDownloads

\* The day-count computation of generate_project_plan followed by its call
\* of generate_timeline_phases.
PlanTimeline ==
    /\ request.op = "plan_timeline"
    /\ response.status = 0
    /\ LET r == request.data[2]
           timeline_days == TimelineDays(Get(r, "timeline", Str("1week")))
       IN  response' =
              [status |-> 1, days |-> timeline_days,
               phases |-> generate_timeline_phases(
                              timeline_days,
                              Get(r, "project_type", Str("fullstack")),
                              Get(r, "difficulty", Str("intermediate")))]
    /\ UNCHANGED <<store, now, request, submitted, fs, dl>>

\* generate_timeline_phases called with a day-count.
SynthesizePhases ==
    /\ request.op = "phases"
    /\ response.status = 0
    /\ response' = [status |-> 1, days |-> request.data[2],
                    phases |-> generate_timeline_phases(
                                   request.data[2], Str("fullstack"),
                                   Str("intermediate"))]
    /\ UNCHANGED <<store, now, request, submitted, fs, dl>>

NextTimeline == PlanTimeline \/ SynthesizePhases

SpecTimeline == InitTimeline /\ [][NextTimeline]_vars

(***************************************************************************)
(* Specification of the plan assembler alone: a configuration and a clock  *)
(* reading are drawn, then generate_project_plan is applied.               *)
(***************************************************************************)
\* The configurations of the plan tests of test_app.py, with the title and
\* the description given, empty, null or left out.
PlanConfig(title, description, project_type, tech_stack) ==
    [With3(project_type, Str("2weeks"), Str("advanced")) EXCEPT
        !["title"] = title,
        !["description"] = description,
        !["tech_stack"] = tech_stack,
        !["features"] = List(<<Str("API Integration")>>),
        !["repo_name"] = Str("my-app")]

PlanTechStacks ==
    {Dict(<< <<"frontend", List(<<Str("React")>>)>>,
             <<"backend", List(<<>>)>>,
             <<"database", List(<<>>)>>,
             <<"tools", List(<<>>)>> >>),
     Dict(<< <<"frontend", List(<<>>)>>,
             <<"backend", List(<<Str("Python"), Str("Flask")>>)>>,
             <<"database", List(<<Str("PostgreSQL")>>)>>,
             <<"tools", List(<<Str("Docker")>>)>> >>)}

PlanInputs ==
    {PlanConfig(t, d, Str(pt), ts) :
        t \in {Absent, Null, Str(""), Str("Test Project")},
        d \in {Absent, Null, Str(""), Str("A test project")},
        pt \in valid_types,
        ts \in PlanTechStacks}
    \cup {EmptyFieldsConfig}

InitPlan ==
    /\ store = <<>>
    /\ now \in 0..MaxClock
    /\ request \in {[op |-> "plan", data |-> Obj(r)] : r \in PlanInputs}
    /\ response = Pending
    /\ submitted = <<>>
    /\ NoDownloads

\* generate_project_plan(project_data): the plan, or the exception of a
\* str method called on a value that is no string.
AssemblePlan ==
    /\ request.op = "plan"
    /\ response.status = 0
    /\ IF PlanComputable(request.data[2])
            THEN response' = [status |-> 1,
                              plan |-> generate_project_plan(request.data[2], now)]
            ELSE response' = [status |-> 2, raised |-> "AttributeError"]
    /\ UNCHANGED <<store, now, request, submitted, fs, dl>>

NextPlan == AssemblePlan

SpecPlan == InitPlan /\ [][NextPlan]_vars

(***************************************************************************)
(* Specification of the file materializer and of the name sanitizer alone: *)
(* a configuration or a repository name is drawn, then the files are       *)
(* generated from the configuration, or the name is sanitized.             *)
(***************************************************************************)
FlagValues == {Absent, Bool(TRUE), Bool(FALSE)}

FilesInputs ==
    {[PlanConfig(Str("Test Project"), Str("A test project"), Str(pt), ts) EXCEPT
            !["include_readme"] = rd,
            !["include_gitignore"] = gi,
            !["include_license"] = li] :
        pt \in valid_types, ts \in PlanTechStacks,
        rd \in FlagValues, gi \in FlagValues, li \in FlagValues}

InitFiles ==
    /\ store = <<>>
    /\ now = 0
    /\ request \in {[op |-> "files", data |-> Obj(r)] : r \in FilesInputs}
                    \cup {[op |-> "sanitize", data |-> Str(n)] : n \in Names}
    /\ response = Pending
    /\ submitted = <<>>
    /\ NoDownloads

\* plan = generate_project_plan(project_data) followed by
\* generate_project_files(project_data, project_dir, plan)
MaterializeFiles ==
    /\ request.op = "files"
    /\ response.status = 0
    /\ LET r == request.data[2]
           plan == generate_project_plan(r, now)
       IN  response' = [status |-> 1, plan |-> plan,
                        files |-> generate_project_files(r, plan)]
    /\ UNCHANGED <<store, now, request, submitted, fs, dl>>

\* repo_name = re.sub(...) of download_project and generate_project_files
SanitizeName ==
    /\ request.op = "sanitize"
    /\ response.status = 0
    /\ response' = [status |-> 1, repo_name |-> Sanitize(request.data[2])]
    /\ UNCHANGED <<store, now, request, submitted, fs, dl>>

NextFiles == MaterializeFiles \/ SanitizeName

SpecFiles == InitFiles /\ [][NextFiles]_vars

(***************************************************************************)
(* Specification of the download handler step by step, run by several      *)
(* server threads at once over one file system.  An entry of fs is a       *)
(* triple: the temporary directory (its name), a path inside it, and the   *)
(* content found there.                                                    *)
(***************************************************************************)
\* The names mkdtemp may give to a temporary directory.
TempNames == 1..MaxWorkers

Entry(n, path, content) == <<n, path, content>>

Directory == <<"dir">>

\* Variant: the name drawn may be one that is in use.
FreshNames_any(fsys) == TempNames

\* mkdtemp creates its directory exclusively: the name is one that names
\* nothing yet.
FreshNames(fsys) == {n \in TempNames : \A e \in fsys : e[1] # n}

\* Variant: the cleanup unlinks the files and leaves the directories.
RemoveTree_files_only(fsys, n) == {e \in fsys : e[1] # n \/ e[3] = Directory}

\* TemporaryDirectory.cleanup(): the directory and everything under it go.
RemoveTree(fsys, n) == {e \in fsys : e[1] # n}

\* temp_path / repo_name; joining the empty name gives temp_path itself
ProjectDir(repo_name) == IF repo_name = "" THEN <<>> ELSE <<repo_name>>

\* f"{repo_name}.zip"
ZipName(repo_name) ==
    CASE repo_name = "" -> ".zip"
      [] repo_name = "my-app" -> "my-app.zip"
      [] repo_name = "my-project" -> "my-project.zip"
      [] repo_name = "test-project" -> "test-project.zip"
      [] repo_name = "my_app-2" -> "my_app-2.zip"
      [] repo_name = "caf<U+00E9>" -> "caf<U+00E9>.zip"

\* The directories generate_project_files makes under the project directory.
MadeDirs(r) ==
    IF r["project_type"] = Str("fullstack")
        THEN {<<"frontend">>, <<"backend">>, <<"database">>}
        ELSE {}

\* What generate_project_files has written when generate_common_files
\* fails on its first write.
TypeFiles(r, plan) ==
    {f \in generate_project_files(r, plan) :
        f[1] \notin {<<"README.md">>, <<".gitignore">>, <<"LICENSE">>,
                     <<".env.example">>}}

\* mkdir(exist_ok=True) and open(path, 'w') under the directory dir of the
\* temporary directory n: what is at a written path is replaced.
WriteTree(fsys, n, dir, dirs, files) ==
    LET made == {Entry(n, dir \o d, Directory) : d \in dirs \cup {<<>>}}
        written == {Entry(n, dir \o f[1], f[2]) : f \in files}
    IN  {e \in fsys : ~(e[1] = n /\ \E x \in written : x[2] = e[2])}
            \cup made \cup written

IsPrefix(dir, path) ==
    Len(path) >= Len(dir) /\ SubSeq(path, 1, Len(dir)) = dir

\* Variant: the entry name keeps the project directory.
RelativeTo_temp(path, dir) == path

\* file_path.relative_to(project_dir)
RelativeTo(path, dir) == SubSeq(path, Len(dir) + 1, Len(path))

\* The os.walk loop: every file under the directory dir of the temporary
\* directory n, under its name relative to dir.
Walk(fsys, n, dir) ==
    {File(RelativeTo(e[2], dir), e[3]) :
        e \in {x \in fsys : x[1] = n /\ x[3] # Directory /\ IsPrefix(dir, x[2])}}

BeingWritten == <<"the archive being written">>

\* The archive at zip_path, if there is one.
ZipAt(fsys, n, repo_name) ==
    {e \in fsys : e[1] = n /\ e[2] = <<ZipName(repo_name)>> /\ e[3] # Directory}

\* The sample body with an empty repository name.
EmptyNameConfig == [SampleConfig EXCEPT !["repo_name"] = Str("")]

\* The project values of the download bodies: none, the sample body, an
\* empty name, a name that sanitizes to nothing, a name that is no string,
\* and a project type no string method applies to.
DownloadInputs ==
    {Absent,
     Obj(SampleConfig),
     Obj(EmptyNameConfig),
     Obj(NamedConfig("!!!")),
     Obj([MinimalConfig EXCEPT !["repo_name"] = Null]),
     Obj(With3(Bool(TRUE), Str("1week"), Str("intermediate")))}

DownloadError(exc) ==
    [status |-> 500, body |-> Error(<<"Failed to generate project files: ", exc>>)]

RepoName(r) == Sanitize(Get(r, "repo_name", Str("my-project"))[2])

InitDownload ==
    /\ store = <<>>
    /\ now = 0
    /\ request = [op |-> "index", data |-> Absent]
    /\ response = [status |-> 200, body |-> <<"index.html">>]
    /\ submitted = <<>>
    /\ NoDownloads

\* A thread takes a download request and runs the handler up to the plan:
\* the exception of generate_project_plan is answered with 500.
DlReceiveFrom(w, inputs) ==
    /\ dl[w].pc \in {"idle", "returned"}
    /\ \E d \in inputs :
          LET project_data == ProjectData(d) IN
          IF project_data[1] # "obj" \/ ~PlanComputable(project_data[2])
              THEN dl' = [dl EXCEPT ![w] =
                            [IdleHandler EXCEPT
                                !.pc = "returned",
                                !.response = DownloadError("AttributeError")]]
              ELSE dl' = [dl EXCEPT ![w] =
                            [IdleHandler EXCEPT
                                !.pc = "planned",
                                !.project = project_data[2],
                                !.plan = generate_project_plan(project_data[2], now)]]
    /\ UNCHANGED <<store, now, request, response, submitted, fs>>

DlReceive(w) == DlReceiveFrom(w, DownloadInputs)

\* with tempfile.TemporaryDirectory() as temp_dir
DlAcquire(w) ==
    /\ dl[w].pc = "planned"
    /\ \E n \in FreshNames(fs) :
          /\ dl' = [dl EXCEPT ![w].pc = "acquired", ![w].temp = n]
          /\ fs' = fs \cup {Entry(n, <<>>, Directory)}
    /\ UNCHANGED <<store, now, request, response, submitted>>

\* The project directory is made and generate_project_files fills it.  A
\* repo_name that is no string raises before anything is written; the file
\* system may fail a write.
DlMaterialize(w) ==
    /\ dl[w].pc = "acquired"
    /\ LET r == dl[w].project
           n == dl[w].temp
       IN  IF Get(r, "repo_name", Str("my-project"))[1] # "str"
               THEN /\ dl' = [dl EXCEPT ![w].pc = "failed"]
                    /\ UNCHANGED fs
               ELSE \E repo_name \in {RepoName(r)} :
                    \/ /\ dl' = [dl EXCEPT ![w].pc = "materialized",
                                            ![w].repo_name = repo_name]
                       /\ \E files \in {generate_project_files(r, dl[w].plan)} :
                             fs' = WriteTree(fs, n, ProjectDir(repo_name),
                                             MadeDirs(r), files)
                    \/ /\ dl' = [dl EXCEPT ![w].pc = "failed",
                                            ![w].repo_name = repo_name]
                       /\ \E files \in {TypeFiles(r, dl[w].plan)} :
                             fs' = WriteTree(fs, n, ProjectDir(repo_name),
                                             MadeDirs(r), files)
    /\ UNCHANGED <<store, now, request, response, submitted>>

\* The archive is opened for writing at zip_path, then the project
\* directory is walked and every file met is added.  The file system may
\* fail the writing.
DlArchive(w) ==
    /\ dl[w].pc = "materialized"
    /\ \E pc \in {"archived", "failed"} :
          /\ dl' = [dl EXCEPT ![w].pc = pc]
          /\ \E repo_name \in {dl[w].repo_name} :
             \E opened \in {WriteTree(fs, dl[w].temp, <<>>, {},
                                      {File(<<ZipName(repo_name)>>, BeingWritten)})} :
                fs' = IF pc = "failed" THEN opened
                      ELSE WriteTree(
                               opened, dl[w].temp, <<>>, {},
                               {File(<<ZipName(repo_name)>>,
                                     <<"zip", Walk(opened, dl[w].temp,
                                                   ProjectDir(repo_name))>>)})
    /\ UNCHANGED <<store, now, request, response, submitted>>

\* return send_file(zip_path, ...): the archive is opened for the response,
\* the with block is left, which removes the temporary directory, and the
\* response is returned.
DlReturn(w) ==
    /\ dl[w].pc = "archived"
    /\ \E repo_name \in {dl[w].repo_name} :
       \E zips \in {ZipAt(fs, dl[w].temp, repo_name)} :
           /\ dl' = [dl EXCEPT
                  ![w].pc = "returned",
                  ![w].temp = 0,
                  ![w].response =
                      IF zips = {} \/ \E e \in zips : e[3] = BeingWritten
                          THEN DownloadError("OSError")
                          ELSE [status |-> 200,
                                body |-> [archive |-> (CHOOSE e \in zips : TRUE)[3][2],
                                          download_name |-> <<repo_name, ".zip">>,
                                          mimetype |-> "application/zip"]]]
           /\ fs' = RemoveTree(fs, dl[w].temp)
    /\ UNCHANGED <<store, now, request, response, submitted>>

\* An exception leaves the with block, which removes the temporary
\* directory, and the except clause answers 500.
DlFail(w) ==
    /\ dl[w].pc = "failed"
    /\ dl' = [dl EXCEPT ![w].pc = "returned", ![w].temp = 0,
                        ![w].response = DownloadError("Exception")]
    /\ fs' = RemoveTree(fs, dl[w].temp)
    /\ UNCHANGED <<store, now, request, response, submitted>>

\* The steps of a handler that has a request.
DlStep(w) ==
    DlAcquire(w) \/ DlMaterialize(w) \/ DlArchive(w) \/ DlReturn(w) \/ DlFail(w)

NextDownload == \E w \in Workers : DlReceive(w) \/ DlStep(w)

SpecDownload == InitDownload /\ [][NextDownload]_vars

\* The same threads under fair scheduling: a thread that handles a request
\* runs the handler to its return.  The body is the sample one, whose
\* handler can succeed, fail in materialization and fail in archiving.
FairInputs == {Obj(SampleConfig)}

NextDownloadFair == \E w \in Workers : DlReceiveFrom(w, FairInputs) \/ DlStep(w)

FairSpecDownload ==
    /\ InitDownload
    /\ [][NextDownloadFair]_vars
    /\ \A w \in Workers :
          /\ WF_vars(DlAcquire(w))
          /\ WF_vars(DlMaterialize(w))
          /\ WF_vars(DlArchive(w))
          /\ WF_vars(DlReturn(w))
          /\ WF_vars(DlFail(w))

(***************************************************************************)
(* Properties.                                                             *)
(***************************************************************************)
\* The enumerated sets as the data model lists them.
EnumTypes == {Str("fullstack"), Str("frontend"), Str("backend")}

EnumTimelines ==
    {Str("weekend"), Str("1week"), Str("2weeks"), Str("1month"), Str("3months"),
     Str("open")}

EnumDifficulties ==
    {Str("beginner"), Str("intermediate"), Str("advanced"), Str("expert")}

\* A configuration whose three required fields are present and legal.
LegalConfig(r) ==
    /\ r["project_type"] \in EnumTypes
    /\ r["timeline"] \in EnumTimelines
    /\ r["difficulty"] \in EnumDifficulties

ValidateAnswered ==
    request.op = "validate" /\ response.status = 1 /\ request.data[1] = "obj"

\* C1: validate_project_data returns (True, None) exactly for the
\* configurations whose project_type, timeline and difficulty are all present
\* and members of their enumerated sets; for every other configuration it
\* returns a failure.
C1_ValidateIffLegal ==
    ValidateAnswered =>
        /\ LegalConfig(request.data[2]) <=> response.result = Returned(TRUE, PyNone)
        /\ ~LegalConfig(request.data[2]) =>
              response.result[1] = "return" /\ response.result[2] = FALSE

\* C1 witness: a legal configuration has been validated and accepted.
C1_Witness ==
    /\ ValidateAnswered
    /\ LegalConfig(request.data[2])
    /\ response.result = Returned(TRUE, PyNone)

\* A required field counts as present when it is populated: the key exists
\* and its value is neither null nor empty.
Populated(v) == v \notin {Absent, Null, Str("")}

\* The six checks in the order the contract fixes, each with the failure it
\* names.
OrderedChecks(r) ==
    << [bad |-> ~Populated(r["project_type"]),
        msg |-> <<"Missing required field: ", "project_type">>],
       [bad |-> ~Populated(r["timeline"]),
        msg |-> <<"Missing required field: ", "timeline">>],
       [bad |-> ~Populated(r["difficulty"]),
        msg |-> <<"Missing required field: ", "difficulty">>],
       [bad |-> r["project_type"] \notin EnumTypes,
        msg |-> <<"Invalid project type: ", r["project_type"]>>],
       [bad |-> r["timeline"] \notin EnumTimelines,
        msg |-> <<"Invalid timeline: ", r["timeline"]>>],
       [bad |-> r["difficulty"] \notin EnumDifficulties,
        msg |-> <<"Invalid difficulty: ", r["difficulty"]>>] >>

Violations(r) == {i \in 1..6 : OrderedChecks(r)[i].bad}

FirstViolation(r) == CHOOSE i \in Violations(r) : \A j \in Violations(r) : i <= j

\* C8: a failed validation names exactly the first violation in the order
\* presence of project_type, timeline, difficulty, then enum membership of
\* project_type, timeline, difficulty, whatever other violations exist.
C8_FirstViolationNamed ==
    (ValidateAnswered /\ Violations(request.data[2]) # {}) =>
        response.result =
            Returned(FALSE, OrderedChecks(request.data[2])[FirstViolation(request.data[2])].msg)

\* C8 witness: a configuration with an illegal project_type and no
\* difficulty has been rejected for the missing difficulty.
C8_Witness ==
    /\ ValidateAnswered
    /\ request.data[2]["project_type"] = Str("invalid_type")
    /\ request.data[2]["timeline"] = Str("invalid_timeline")
    /\ request.data[2]["difficulty"] = Absent
    /\ response.result = Returned(FALSE, <<"Missing required field: ", "difficulty">>)

Percentages(phases) == [i \in 1..Len(phases) |-> phases[i].percentage]

TaskCounts(phases) == [i \in 1..Len(phases) |-> Len(phases[i].tasks)]

\* C10 as claimed: the template is picked by day-count bucket, and the
\* 0-day 'open' timeline gets the 4-phase 10/35/35/20 template with the extra
\* task lines.
C10_OpenGetsLongTemplate ==
    (request.op \in {"plan_timeline", "phases"} /\ response.status = 1) =>
        LET d == response.days IN
        /\ Percentages(response.phases) =
              (IF d = 0 \/ d > 14 THEN <<10, 35, 35, 20>>
               ELSE IF d <= 3 THEN <<20, 60, 20>>
               ELSE IF d <= 7 THEN <<15, 50, 25, 10>>
               ELSE <<10, 40, 35, 15>>)
        /\ (d = 0 \/ d > 14) => TaskCounts(response.phases) = <<4, 4, 4, 5>>

\* A handler answers the pending request in this step.
Answers(op) == request.op = op /\ response.status = 0 /\ response'.status # 0

\* C2: every stored record has project_type, timeline and difficulty
\* populated with members of their enumerated sets, whatever create requests
\* were made.
C2_StoredRecordsLegal ==
    \A i \in 1..Len(store) :
        /\ store[i].project_type \in EnumTypes
        /\ store[i].timeline \in EnumTimelines
        /\ store[i].difficulty \in EnumDifficulties

\* C2 witness: a record is stored and a create with an illegal difficulty
\* has just been refused.
C2_Witness ==
    /\ Len(store) >= 1
    /\ request.op = "create"
    /\ request.data = Obj(With3(Str("fullstack"), Str("1week"), Str("invalid_difficulty")))
    /\ response.status = 400

\* C3 as claimed: a create whose body fails validation is answered 400 with
\* {error} and leaves the store as it was; one whose body passes validation
\* is answered 200 with {success, project, message} and adds one record.
C3_CreateAnswers400Or200 ==
    [][(Answers("create") /\ request.data[1] = "obj") =>
          IF LegalConfig(request.data[2])
              THEN /\ response'.status = 200
                   /\ DOMAIN response'.body = {"success", "project", "message"}
                   /\ Len(store') = Len(store) + 1
              ELSE /\ response'.status = 400
                   /\ DOMAIN response'.body = {"error"}
                   /\ store' = store]_vars

\* The optional fields of a configuration hold values of their column's
\* type: text or null in the text columns, a boolean or null in the flags.
WellTyped(r) ==
    /\ \A f \in {"title", "description", "deployment_platform", "repo_name"} :
          r[f][1] \in {"absent", "str", "null"}
    /\ \A f \in {"include_readme", "include_license", "include_gitignore"} :
          r[f][1] \in {"absent", "bool", "null"}

\* C3 amended: a create whose body fails validation is answered 400 with
\* {error} and leaves the store as it was; one whose body passes validation
\* is answered 200 with {success, project, message} and adds one record,
\* unless persisting it raises (a field value its column cannot take), and
\* then it is answered 500 with {error} and leaves the store as it was.
C3_CreateAnswers400Or200Or500 ==
    [][(Answers("create") /\ request.data[1] = "obj") =>
          IF ~LegalConfig(request.data[2])
              THEN /\ response'.status = 400
                   /\ DOMAIN response'.body = {"error"}
                   /\ store' = store
          ELSE IF WellTyped(request.data[2])
              THEN /\ response'.status = 200
                   /\ DOMAIN response'.body = {"success", "project", "message"}
                   /\ Len(store') = Len(store) + 1
                   /\ \A i \in 1..Len(store) : store'[i] = store[i]
              ELSE /\ response'.status = 500
                   /\ DOMAIN response'.body = {"error"}
                   /\ store' = store]_vars

\* C3 witness: with a record already stored, a second valid create has been
\* answered 200.
C3_Witness ==
    /\ request.op = "create"
    /\ response.status = 200
    /\ Len(store) >= 2
    /\ LegalConfig(request.data[2])

StoredFields ==
    {"title", "description", "project_type", "timeline", "difficulty",
     "tech_stack", "features", "deployment_platform", "repo_name",
     "include_readme", "include_license", "include_gitignore"}

GetAnswered200 ==
    /\ request.op = "get"
    /\ response.status = 200

FieldDefault(f) ==
    CASE f = "title" -> Str("Untitled Project")
      [] f = "description" -> Str("")
      [] f = "tech_stack" -> Dict(<<>>)
      [] f = "features" -> List(<<>>)
      [] f = "deployment_platform" -> Str("github")
      [] f = "repo_name" -> Str("")
      [] f = "include_readme" -> Bool(TRUE)
      [] f = "include_license" -> Bool(FALSE)
      [] f = "include_gitignore" -> Bool(TRUE)

C5_GetFoundOrNotFound ==
    (request.op = "get" /\ response.status # 0) =>
        IF request.data[1] = "int" /\ \E i \in 1..Len(store) : store[i].id = request.data[2]
            THEN /\ response.status = 200
                 /\ \E i \in 1..Len(store) :
                        /\ store[i].id = request.data[2]
                        /\ response.body.id = store[i].id
                        /\ \A f \in StoredFields \ {"tech_stack", "features"} :
                              response.body[f] = store[i][f]
                        /\ json_dumps(response.body.tech_stack) = store[i].tech_stack[2]
                        /\ json_dumps(response.body.features) = store[i].features[2]
            ELSE /\ response.status = 404
                 /\ DOMAIN response.body = {"error"}

\* C5 witness: after two creates, the second record has been retrieved by
\* its id.
C5_Witness ==
    /\ request.op = "get"
    /\ request.data = <<"int", 2>>
    /\ response.status = 200
    /\ Len(store) >= 2

\* C6 as claimed: the listing holds every stored configuration exactly once
\* and a record created later comes before every record created earlier.
C6_ListNewestFirst ==
    (request.op = "list" /\ response.status = 200) =>
        /\ Len(response.body) = Len(store)
        /\ \A k \in 1..Len(store) :
              Cardinality({i \in 1..Len(response.body) :
                              response.body[i].id = store[k].id}) = 1
        /\ \A i, j \in 1..Len(response.body) :
              i < j => response.body[i].id > response.body[j].id

\* C7: no operation updates or deletes a stored record: every step keeps
\* each stored record as it was, so the stored ids only grow, and a get,
\* list, generate, download or catalog request leaves the store unchanged.
C7_StoreOnlyGrows ==
    [][/\ Len(store') >= Len(store)
       /\ \A i \in 1..Len(store) : store'[i] = store[i]
       /\ {store[i].id : i \in 1..Len(store)}
              \subseteq {store'[i].id : i \in 1..Len(store')}
       /\ (\E op \in {"get", "list", "generate", "download", "tech_stacks",
                      "features", "index"} : Answers(op))
              => store' = store]_vars

\* C7 witness: a second record has been created at a later clock reading
\* than the first, which is still as it was inserted.
C7_Witness ==
    /\ Len(store) >= 2
    /\ store[1].updated_at = store[1].created_at
    /\ store[2].created_at > store[1].created_at
    /\ request.op = "create"
    /\ response.status = 200

\* C9 as claimed: generate and download yield a plan or an archive only for
\* a configuration that passes validation.
C9_GenerateGatedByValidator ==
    (request.op \in {"generate", "download"} /\ response.status = 200) =>
        /\ request.data[1] = "obj"
        /\ LegalConfig(request.data[2])

TimelineAnswered ==
    request.op \in {"plan_timeline", "phases"} /\ response.status = 1

Span(ph) == ph.end_day - ph.start_day + 1

Abs(x) == IF x < 0 THEN -x ELSE x

\* n is num / 100 rounded to the nearest integer, an exact half to the even
\* neighbour.
IsRounded(n, num) ==
    \/ 2 * Abs(100 * n - num) < 100
    \/ 2 * Abs(100 * n - num) = 100 /\ n % 2 = 0

\* C11: every phase spans max(1, round(d * percentage / 100)) days, the
\* first phase starts at day 1, each phase ends at start + span - 1 and the
\* next one starts the day after, so the day ranges are contiguous; for
\* d = 7 the ranges are 1-1, 2-5, 6-7, 8-8, eight days in all.
C11_SpansContiguous ==
    TimelineAnswered =>
        LET ph == response.phases
            d == response.days
        IN  /\ \A i \in 1..Len(ph) :
                  \E n \in 0..(d + 1) :
                      /\ IsRounded(n, d * ph[i].percentage)
                      /\ Span(ph[i]) = (IF n < 1 THEN 1 ELSE n)
            /\ ph[1].start_day = 1
            /\ \A i \in 1..Len(ph) : ph[i].end_day >= ph[i].start_day
            /\ \A i \in 1..(Len(ph) - 1) : ph[i + 1].start_day = ph[i].end_day + 1
            /\ d = 7 =>
                  [i \in 1..Len(ph) |-> <<ph[i].start_day, ph[i].end_day>>]
                      = << <<1, 1>>, <<2, 5>>, <<6, 7>>, <<8, 8>> >>

\* C11 witness: the phases of a 7-day timeline have been laid out and end
\* on day 8.
C11_Witness ==
    /\ TimelineAnswered
    /\ response.days = 7
    /\ Len(response.phases) = 4
    /\ response.phases[4].end_day = 8

RECURSIVE SumSpans(_)

SumSpans(ph) == IF ph = <<>> THEN 0 ELSE Span(Head(ph)) + SumSpans(Tail(ph))

\* C12: for day-counts d > 0 the sum of the phase spans never decreases
\* when d grows by one day, across the bucket boundaries too.
C12_SpanSumMonotonic ==
    (TimelineAnswered /\ response.days >= 2) =>
        SumSpans(response.phases) >=
            SumSpans(generate_timeline_phases(response.days - 1, Str("fullstack"),
                                              Str("intermediate")))

\* C12 witness: a 30-day timeline, where 10.5 rounds down to 10, has been
\* laid out with 29 days in all, as many as the 29-day one.
C12_Witness ==
    /\ TimelineAnswered
    /\ response.days = 30
    /\ SumSpans(response.phases) = 29

PlanAssembled == request.op = "plan" /\ response.status = 1

\* The sections of a plan under a heading.
SectionsHeaded(plan, heading) == {i \in 1..Len(plan) : plan[i][1] = heading}

\* C13: the assembled plan holds the synthesized timeline under a
\* 'Development Timeline' heading and the rendered getting-started steps
\* under a 'Getting Started' heading, whatever the configuration.
C13_PlanHasTimelineAndGettingStarted ==
    PlanAssembled =>
        LET r == request.data[2]
            plan == response.plan
            project_type == Get(r, "project_type", Str("fullstack"))
            repo_name == Get(r, "repo_name", Str("my-project"))
        IN  /\ \E i \in SectionsHeaded(plan, "## Development Timeline") :
                  plan[i][2] =
                      generate_timeline_phases(
                          TimelineDays(Get(r, "timeline", Str("1week"))),
                          project_type,
                          Get(r, "difficulty", Str("intermediate")))
            /\ \E i \in SectionsHeaded(plan, "## Getting Started") :
                  plan[i][2] =
                      generate_getting_started(
                          Get(r, "tech_stack", Dict(<<>>)), project_type,
                          Get(r, "github_username", Str("yourusername")), repo_name)

\* C19: a plan assembled from a configuration without a title, or with an
\* empty one, is titled 'Untitled Project'; without a description, or with
\* an empty one, its overview reads 'No description provided'.
C19_PlaceholdersForEmpty ==
    PlanAssembled =>
        LET r == request.data[2]
            plan == response.plan
        IN  /\ r["title"] \in {Absent, Str("")} =>
                  \E i \in SectionsHeaded(plan, "# ") :
                      plan[i][2] = Str("Untitled Project")
            /\ r["description"] \in {Absent, Str("")} =>
                  \E i \in SectionsHeaded(plan, "## Project Overview") :
                      plan[i][2] = Str("No description provided")

\* C19 witness: a plan has been assembled from a configuration whose title
\* and description are both the empty string.
C19_Witness ==
    /\ PlanAssembled
    /\ request.data[2]["title"] = Str("")
    /\ request.data[2]["description"] = Str("")
    /\ response.plan[1] = <<"# ", Str("Untitled Project")>>

FilesMaterialized == request.op = "files" /\ response.status = 1

HasFile(files, path) == \E f \in files : f[1] = path

\* The flag as the data model reads it: its value, its default when left out.
FlagOn(r, flag, default) ==
    (IF r[flag] = Absent THEN default ELSE r[flag]) = Bool(TRUE)

\* C14: whatever the project type and the tech stack, the materializer
\* writes README.md, holding the plan, exactly when include_readme is on,
\* .gitignore exactly when include_gitignore is on, LICENSE exactly when
\* include_license is on, and .env.example always.
C14_CommonFilesFollowFlags ==
    FilesMaterialized =>
        LET r == request.data[2]
            files == response.files
        IN  /\ File(<<"README.md">>, <<"plan", response.plan>>) \in files
                  <=> FlagOn(r, "include_readme", Bool(TRUE))
            /\ HasFile(files, <<"README.md">>)
                  <=> FlagOn(r, "include_readme", Bool(TRUE))
            /\ HasFile(files, <<".gitignore">>)
                  <=> FlagOn(r, "include_gitignore", Bool(TRUE))
            /\ HasFile(files, <<"LICENSE">>)
                  <=> FlagOn(r, "include_license", Bool(FALSE))
            /\ HasFile(files, <<".env.example">>)

\* C14 witness: the files of a backend project that wants a license and no
\* README have been written.
C14_Witness ==
    /\ FilesMaterialized
    /\ request.data[2]["project_type"] = Str("backend")
    /\ request.data[2]["include_readme"] = Bool(FALSE)
    /\ request.data[2]["include_license"] = Bool(TRUE)
    /\ HasFile(response.files, <<"LICENSE">>)
    /\ ~HasFile(response.files, <<"README.md">>)
    /\ HasFile(response.files, <<"requirements.txt">>)

NameSanitized == request.op = "sanitize" /\ response.status = 1

\* The characters of [A-Za-z0-9_-].
AsciiNameChars ==
    {"a", "b", "c", "d", "e", "f", "g", "h", "i", "j", "k", "l", "m", "n", "o",
     "p", "q", "r", "s", "t", "u", "v", "w", "x", "y", "z",
     "A", "B", "C", "D", "E", "F", "G", "H", "I", "J", "K", "L", "M", "N", "O",
     "P", "Q", "R", "S", "T", "U", "V", "W", "X", "Y", "Z",
     "0", "1", "2", "3", "4", "5", "6", "7", "8", "9", "_", "-"}

UpperChars ==
    {"A", "B", "C", "D", "E", "F", "G", "H", "I", "J", "K", "L", "M", "N", "O",
     "P", "Q", "R", "S", "T", "U", "V", "W", "X", "Y", "Z"}

\* C18: the sanitized repository name holds only characters of
\* [A-Za-z0-9_-] and no upper-case letter, and when the input holds only
\* such characters and spaces it is the input with every space turned into
\* a hyphen.
C18_SanitizedNameAscii ==
    NameSanitized =>
        LET input == NameChars(request.data[2])
            output == NameChars(response.repo_name)
        IN  /\ \A i \in 1..Len(output) :
                  output[i] \in AsciiNameChars \ UpperChars
            /\ (\A i \in 1..Len(input) : input[i] \in AsciiNameChars \cup {" "}) =>
                  /\ Len(output) = Len(input)
                  /\ \A i \in 1..Len(input) : input[i] = " " => output[i] = "-"

Returned200(w) == dl[w].pc = "returned" /\ dl[w].response.status = 200

\* The entries of the archive a handler has written at its zip_path.
Archived(w) ==
    UNION {e[3][2] : e \in ZipAt(fs, dl[w].temp, RepoName(dl[w].project))}

\* C15: the archive returned for a configuration whose include_readme is on
\* holds, at its root, a README.md whose content is the plan the handler
\* generated; and every name in a written archive, taken from the project
\* directory, is the path of a file in it.
C15_ArchiveHoldsPlanAtRoot ==
    \A w \in Workers :
        /\ (Returned200(w) /\ FlagOn(dl[w].project, "include_readme", Bool(TRUE))) =>
              File(<<"README.md">>, <<"plan", dl[w].plan>>)
                  \in dl[w].response.body.archive
        /\ dl[w].pc = "archived" =>
              \A e \in Archived(w) :
                  \E x \in fs :
                      /\ x[1] = dl[w].temp
                      /\ x[2] = ProjectDir(RepoName(dl[w].project)) \o e[1]
                      /\ x[3] # Directory

\* C15 witness: the archive of the sample configuration, named
\* test-project, has been returned with the plan as README.md.
C15_Witness ==
    \E w \in Workers :
        /\ Returned200(w)
        /\ dl[w].project = SampleConfig
        /\ File(<<"README.md">>, <<"plan", dl[w].plan>>)
              \in dl[w].response.body.archive
        /\ dl[w].response.body.download_name = <<"test-project", ".zip">>

\* C16: when a handler that acquired a temporary directory returns, by its
\* return statement or through the except clause, nothing of that
\* directory is left; and a handler that holds one does return.
C16_ScratchReleased ==
    /\ [][\A w \in Workers :
            (dl[w].temp # 0 /\ dl'[w].pc = "returned") =>
                \A e \in fs' : e[1] # dl[w].temp]_vars
    /\ \A w \in Workers :
            (dl[w].temp # 0) ~> (dl[w].temp = 0 /\ dl[w].pc = "returned")

\* C16 witness: a handler whose materialization or archiving failed has
\* answered 500 and no temporary directory is left.
C16_Witness ==
    \E w \in Workers :
        /\ dl[w].pc = "returned"
        /\ dl[w].response = DownloadError("Exception")
        /\ dl[w].project = SampleConfig
        /\ fs = {}

\* C17: two handlers never hold the same temporary directory; the files a
\* handler has written stay as it wrote them until it removes them; and
\* its archive holds nothing but files of its own.
C17_ScratchNotShared ==
    /\ \A w, v \in Workers :
          (w # v /\ dl[w].temp # 0 /\ dl[v].temp # 0) => dl[w].temp # dl[v].temp
    /\ \A w \in Workers :
          dl[w].pc \in {"materialized", "archived"} =>
              \A f \in generate_project_files(dl[w].project, dl[w].plan) :
                  Entry(dl[w].temp,
                        ProjectDir(RepoName(dl[w].project)) \o f[1], f[2]) \in fs
    /\ \A w \in Workers :
          dl[w].pc = "archived" =>
              \A e \in Archived(w) :
                  \/ e \in generate_project_files(dl[w].project, dl[w].plan)
                  \/ e[1] = <<ZipName(RepoName(dl[w].project))>>

\* C17 witness: two handlers have materialized the same configuration,
\* hence the same repo_name, each in a temporary directory of its own.
C17_Witness ==
    \E w, v \in Workers :
        /\ w # v
        /\ dl[w].pc = "materialized" /\ dl[v].pc = "materialized"
        /\ dl[w].project = SampleConfig /\ dl[v].project = SampleConfig
        /\ dl[w].temp # dl[v].temp

\* C20: the archive is written outside the directory that is walked, so
\* its entries are exactly the files the materializer wrote.
C20_ArchiveOutsideWalkedTree ==
    \A w \in Workers :
        dl[w].pc = "archived" =>
            /\ ~IsPrefix(ProjectDir(RepoName(dl[w].project)),
                         <<ZipName(RepoName(dl[w].project))>>)
            /\ Archived(w) = generate_project_files(dl[w].project, dl[w].plan)

====
